---- MODULE Spec2Model ----
(***************************************************************************)
(* txzookeeper: the distributed queue (queue.py) and the distributed lock  *)
(* (lock.py) over a model of the coordination service.                     *)
(*                                                                         *)
(* Service model.  Every client handle owns one session.  The requests of  *)
(* a session are served in issue order and their completions are run in    *)
(* that order, one reactor event each (pending[h] is that FIFO).  A request *)
(* takes effect on the tree in the step that runs its completion.  A watch *)
(* that fired is delivered to its session before any later completion      *)
(* (events[h] has priority over pending[h]).  Sessions stay connected.     *)
(***************************************************************************)
EXTENDS Bags, FiniteSets, Integers, Naturals, Sequences, TLC

\* ---- bounds ----
NumHandles == 2
MaxCalls == 2
MaxPuts == 2
NumItems == 2
MaxRoundTrips == 3
NumLocks == 3
MaxCandidates == 3
MaxValueErrors == 1
MaxBacklog == 3
NumNodes == 2
MaxVersion == 1
MaxWatches == 2
MaxInFlight == 1
MaxChildren == 1

Handles == 1..NumHandles
Calls == 1..MaxCalls
LockHandles == 1..NumLocks
NodeHandles == 1..NumNodes
AllItems == <<"a", "b", "c", "d", "e", "f">>
Items == {AllItems[i] : i \in 1..NumItems}
NoCall == 0
NoName == 0

VARIABLES
  dirExists,   \* the queue directory node exists
  entries,     \* entries[n]: the entry node with sequence suffix n, [data, live]
  watchers,    \* watchers[h]: child watches of the directory set by handle h
  events,      \* events[h]: fired watches not yet delivered to h
  pending,     \* pending[h]: requests of h in flight, in issue order
  cache,       \* cache[h]: Queue._cached_entries of handle h
  calls,       \* calls[c]: the user call c of get/get_nowait/get_wait
  valueErrors, \* the ValueErrors raised by put so far
  lockNodes,   \* lockNodes[n]: the candidate node with suffix n, [owner, live]
  locks,       \* locks[l]: the Lock handle l
  znode,       \* the node at the path of the ZNode handles, on the service
  nodeStat,    \* nodeStat[z]: ZNode._node_stat of handle z
  nreqs,       \* nreqs[z]: requests of handle z in flight, in issue order
  nresult,     \* nresult[z]: what the last finished call of z gave its caller
  regs         \* regs[i]: the i-th deferred handed out by an and_watch call

qvars == <<dirExists, entries, watchers, events, pending, cache, calls,
           valueErrors>>
lvars == <<lockNodes, locks>>
nvars == <<znode, nodeStat, nreqs, nresult, regs>>
vars == <<dirExists, entries, watchers, events, pending, cache, calls,
          valueErrors, lockNodes, locks,
          znode, nodeStat, nreqs, nresult, regs>>

\* ---- values ----
NoResult == [kind |-> "none", val |-> ""]
Ok(v) == [kind |-> "ok", val |-> v]
Fail(k) == [kind |-> k, val |-> ""]

IdleCall == [h |-> 0, wait |-> FALSE, st |-> "idle", stack |-> <<>>,
             name |-> NoName, cur |-> NoName, data |-> "", res |-> NoResult]

Req(op, c, n, w) == [op |-> op, call |-> c, node |-> n, wait |-> w]
Watcher(w, t) == [wait |-> w, target |-> t]
Ctx(k, n) == [k |-> k, name |-> n]

\* ---- the coordination service ----
Live == {n \in 1..Len(entries) : entries[n].live}

Exists(n) == n \in Live

\* the sequence suffix the service gives the next sequential node
NextSequence == Len(entries) + 1

\* client.get_children: the child names, in no useful order (here descending)
RECURSIVE Descending(_)
Descending(S) ==
  IF S = {} THEN <<>>
  ELSE LET m == CHOOSE x \in S : \A y \in S : y <= x
       IN <<m>> \o Descending(S \ {m})

ClientGetChildren == Descending(Live)

\* client.get: (data, stat)
ClientGet(n) == <<entries[n].data, [version |-> 0]>>

\* list.sort() of the child names: ascending by the zero padded suffix
RECURSIVE Insert(_, _)
Insert(x, s) ==
  IF s = <<>> THEN <<x>>
  ELSE IF x <= Head(s) THEN <<x>> \o s
  ELSE <<Head(s)>> \o Insert(x, Tail(s))

RECURSIVE Sort(_)
Sort(s) == IF s = <<>> THEN <<>> ELSE Insert(Head(s), Sort(Tail(s)))

\* every child watch of the directory fires: node created, deleted below it,
\* or the directory deleted
FiredEvents == [h \in Handles |-> events[h] \o watchers[h]]
NoWatchers == [h \in Handles |-> <<>>]

\* ---- Queue ----
\* pop() where pop(0) is meant
PopFirst_last(s) == [name |-> s[Len(s)], rest |-> SubSeq(s, 1, Len(s) - 1)]

\* _get line 190: self._cached_entries.pop(0)
PopFirst(s) == [name |-> Head(s), rest |-> Tail(s)]

\* _get_item line 166: self._cached_entries.pop()
PopLast(s) == [name |-> s[Len(s)], rest |-> SubSeq(s, 1, Len(s) - 1)]

\* _get_item.on_success: client.get gives a tuple, a nested _get the data
OnSuccessTuple(t) == t[1]
OnSuccessData(d) == d

\* _get lines 190-191: pop the first cached name and read it
PopAndRead(c, rec, cch) ==
  LET p == PopFirst(cch)
  IN [call |-> [rec EXCEPT !.st = "read", !.name = p.name, !.cur = p.name],
      cache |-> p.rest,
      reqs |-> <<Req("get", c, p.name, rec.wait)>>]

\* _get lines 184-191 up to the first yield
GetFrame(c, rec, cch) ==
  IF cch = <<>>
  THEN [call |-> [rec EXCEPT !.st = "refill"],
        cache |-> cch,
        reqs |-> <<Req("get_children", c, NoName, rec.wait)>>]
  ELSE PopAndRead(c, rec, cch)

\* A _get frame ends with outcome r; the callbacks the frame was started
\* from run: K1 is _get_item.on_no_node (line 169) followed by
\* on_success_remove, K2 is on_no_node_error on the delete (line 205),
\* K3 is on_no_node_error on the outer chain (line 209).
RECURSIVE Finish(_, _, _, _)
Finish(c, rec, cch, r) ==
  IF rec.stack = <<>>
  THEN [call |-> [rec EXCEPT !.st = "done", !.res = r,
                             !.name = NoName, !.cur = NoName, !.data = ""],
        cache |-> cch, reqs |-> <<>>]
  ELSE LET ctx == Head(rec.stack)
           outer == [rec EXCEPT !.stack = Tail(@), !.name = ctx.name,
                                !.cur = NoName, !.data = ""]
       IN CASE ctx.k = "K1" /\ r.kind = "ok" ->
                 [call |-> [outer EXCEPT !.st = "delete",
                                         !.data = OnSuccessData(r.val)],
                  cache |-> cch,
                  reqs |-> <<Req("delete", c, ctx.name, rec.wait)>>]
            [] ctx.k \in {"K1", "K2"} /\ r.kind = "NoNode" ->
                 GetFrame(c, [outer EXCEPT !.stack = <<Ctx("K3", NoName)>> \o @,
                                           !.name = NoName], cch)
            [] OTHER -> Finish(c, [outer EXCEPT !.name = NoName], cch, r)

\* _get lines 187-191, after the refill resolved
AfterRefill(c, rec, cch) ==
  IF ~rec.wait /\ cch = <<>> THEN Finish(c, rec, cch, Fail("Empty"))
  ELSE IF cch = <<>> THEN Finish(c, rec, cch, Fail("IndexError"))
  ELSE PopAndRead(c, rec, cch)

\* _refill.on_success lines 123-124
RefilledCache == Sort(ClientGetChildren)

\* child_available returned without looking at wait
ReturnsChildAvailable_nowait(children, wait) == children = <<>>

\* child_available never returned
ReturnsChildAvailable_never(children, wait) == FALSE

\* _refill.on_success lines 126-128: the refill returns child_available
ReturnsChildAvailable(children, wait) == children = <<>> /\ wait

\* on_queue_items_changed lines 110-117: the call notify_waiting resumes
NotifyTarget(ev) == IF ev.wait THEN ev.target ELSE NoCall

\* _get_item.on_no_node lines 165-169
OnNoNode(c, rec, cch) ==
  IF cch # <<>>
  THEN LET p == PopLast(cch)
       IN [call |-> [rec EXCEPT !.cur = p.name], cache |-> p.rest,
           reqs |-> <<Req("get", c, p.name, rec.wait)>>]
  ELSE GetFrame(c, [rec EXCEPT !.stack = <<Ctx("K1", rec.name)>> \o @,
                               !.name = NoName, !.cur = NoName], cch)

\* the NoNode of the delete taken for a success
OnDeleteNoNode_ignored(c, rec, cch) == Finish(c, rec, cch, Ok(rec.data))

\* the NoNode of the delete handed to the caller
OnDeleteNoNode_raised(c, rec, cch) ==
  [call |-> [rec EXCEPT !.st = "done", !.res = Fail("NoNode"), !.stack = <<>>,
                        !.name = NoName, !.cur = NoName, !.data = ""],
   cache |-> cch, reqs |-> <<>>]

\* _get.on_no_node_error on the delete, line 205
OnDeleteNoNode(c, rec, cch) ==
  GetFrame(c, [rec EXCEPT !.stack = <<Ctx("K2", NoName)>> \o @,
                          !.name = NoName, !.cur = NoName, !.data = ""], cch)

Apply(h, c, r) ==
  /\ calls' = [calls EXCEPT ![c] = r.call]
  /\ cache' = [cache EXCEPT ![h] = r.cache]
  /\ pending' = [pending EXCEPT ![h] = Tail(@) \o r.reqs]

Serving(h, op) ==
  /\ events[h] = <<>>
  /\ pending[h] # <<>>
  /\ Head(pending[h]).op = op

\* ---- user operations ----
\* Queue.get / get_nowait / get_wait as call c: it runs to its first request
StartGetAs(c, h, w) ==
  /\ LET r == GetFrame(c, [IdleCall EXCEPT !.h = h, !.wait = w], cache[h])
     IN /\ calls' = [calls EXCEPT ![c] = r.call]
        /\ cache' = [cache EXCEPT ![h] = r.cache]
        /\ pending' = [pending EXCEPT ![h] = @ \o r.reqs]
  /\ UNCHANGED <<dirExists, entries, watchers, events>>
  /\ UNCHANGED <<valueErrors, lvars, nvars>>

StartGet(h, w) ==
  \E c \in Calls :
    /\ calls[c].st = "idle"
    /\ \A b \in Calls : b < c => calls[b].st # "idle"
    /\ StartGetAs(c, h, w)

\* Queue.put of a string item by a producer: client.create with SEQUENCE
Create(item) ==
  /\ dirExists
  /\ entries' = Append(entries, [data |-> item, live |-> TRUE])
  /\ events' = FiredEvents
  /\ watchers' = NoWatchers
  /\ UNCHANGED <<dirExists, pending, cache, calls>>
  /\ UNCHANGED <<valueErrors, lvars, nvars>>

\* a python value handed to put: its type and its text
PyValue(t, v) == [type |-> t, val |-> v]

\* put line 65: isinstance(item, str)
IsInstanceStr(x) == x.type = "str"

\* the items handed to put: the next of the producers' pairwise distinct
\* strings, or a value that is not a str
PutInputs ==
  {PyValue("str", AllItems[NextSequence]), PyValue("int", "7"),
   PyValue("unicode", "a")}

\* put with the type check after the create
QueuePut_unchecked(x) == Create(x.val)

\* Queue.put lines 65-74
QueuePut(x) ==
  IF ~IsInstanceStr(x)
  THEN /\ valueErrors < MaxValueErrors
       /\ valueErrors' = valueErrors + 1
       /\ UNCHANGED <<dirExists, entries, watchers, events, pending, cache,
                      calls>>
       /\ UNCHANGED <<lvars, nvars>>
  ELSE Create(x.val)

Put ==
  \E x \in PutInputs :
    /\ IsInstanceStr(x) => Len(entries) < MaxPuts
    /\ QueuePut(x)

\* a peer deletes the queue directory (it has no children)
DeleteDir ==
  /\ dirExists
  /\ Live = {}
  /\ dirExists' = FALSE
  /\ events' = FiredEvents
  /\ watchers' = NoWatchers
  /\ UNCHANGED <<entries, pending, cache, calls>>
  /\ UNCHANGED <<valueErrors, lvars, nvars>>

\* ---- completions ----
\* _refill.on_queue_items_changed
WatchFired(h) ==
  /\ events[h] # <<>>
  /\ LET ev == Head(events[h])
     IN /\ events' = [events EXCEPT ![h] = Tail(@)]
        /\ cache' = [cache EXCEPT ![h] = <<>>]
        /\ pending' = [pending EXCEPT ![h] = Append(@,
              Req("watch_refill", NotifyTarget(ev), NoName, ev.wait))]
  /\ UNCHANGED <<dirExists, entries, watchers, calls>>
  /\ UNCHANGED <<valueErrors, lvars, nvars>>

\* on_error raising Empty
OnError_empty == Fail("Empty")

\* _refill.on_error lines 133-137: raise NoNodeException("Queue node doesn't
\* exist ...") on a connected client
OnError == Fail("NoNode")

\* _refill called from _get: on_success / on_error
RefillDone(h) ==
  /\ Serving(h, "get_children")
  /\ LET q == Head(pending[h])
         c == q.call
     IN IF ~dirExists
        THEN /\ Apply(h, c, Finish(c, calls[c], cache[h], OnError))
             /\ UNCHANGED watchers
        ELSE IF ReturnsChildAvailable(RefilledCache, q.wait)
        THEN /\ calls' = [calls EXCEPT ![c].st = "waiting"]
             /\ cache' = [cache EXCEPT ![h] = RefilledCache]
             /\ pending' = [pending EXCEPT ![h] = Tail(@)]
             /\ watchers' = [watchers EXCEPT ![h] = Append(@, Watcher(q.wait, c))]
        ELSE /\ Apply(h, c, AfterRefill(c, calls[c], RefilledCache))
             /\ watchers' = [watchers EXCEPT ![h] = Append(@, Watcher(q.wait, NoCall))]
  /\ UNCHANGED <<dirExists, entries, events>>
  /\ UNCHANGED <<valueErrors, lvars, nvars>>

\* the failure of the refill handed to the suspended call
WatchRefillFailed_errback(h, c) ==
  IF c = NoCall
  THEN /\ pending' = [pending EXCEPT ![h] = Tail(@)]
       /\ UNCHANGED <<watchers, cache, calls>>
  ELSE /\ Apply(h, c, Finish(c, calls[c], cache[h], Fail("NoNode")))
       /\ UNCHANGED watchers

\* _refill.on_error in a refill started by the watcher: the failure stays in
\* the refill's deferred, notify_waiting is a callback and is skipped
WatchRefillFailed(h, c) ==
  /\ pending' = [pending EXCEPT ![h] = Tail(@)]
  /\ UNCHANGED <<watchers, cache, calls>>

\* notify_waiting chained to every later refill of the handle as well: the
\* watcher set by the refill that resumed the call still targets the call
WatchRefillDone_renotify(h) ==
  /\ Serving(h, "watch_refill")
  /\ LET q == Head(pending[h])
         c == q.call
     IN IF ~dirExists
        THEN WatchRefillFailed(h, c)
        ELSE IF ReturnsChildAvailable(RefilledCache, q.wait) \/ c = NoCall
        THEN /\ cache' = [cache EXCEPT ![h] = RefilledCache]
             /\ pending' = [pending EXCEPT ![h] = Tail(@)]
             /\ watchers' = [watchers EXCEPT ![h] = Append(@, Watcher(q.wait, c))]
             /\ UNCHANGED calls
        ELSE /\ Apply(h, c, AfterRefill(c, calls[c], RefilledCache))
             /\ watchers' = [watchers EXCEPT ![h] = Append(@, Watcher(q.wait, c))]
  /\ UNCHANGED <<dirExists, entries, events>>
  /\ UNCHANGED <<valueErrors, lvars, nvars>>

\* _refill called from on_queue_items_changed; notify_waiting resumes the
\* call suspended on child_available
WatchRefillDone(h) ==
  /\ Serving(h, "watch_refill")
  /\ LET q == Head(pending[h])
         c == q.call
     IN IF ~dirExists
        THEN WatchRefillFailed(h, c)
        ELSE IF ReturnsChildAvailable(RefilledCache, q.wait)
        THEN /\ cache' = [cache EXCEPT ![h] = RefilledCache]
             /\ pending' = [pending EXCEPT ![h] = Tail(@)]
             /\ watchers' = [watchers EXCEPT ![h] = Append(@, Watcher(q.wait, c))]
             /\ UNCHANGED calls
        ELSE IF c = NoCall
        THEN /\ cache' = [cache EXCEPT ![h] = RefilledCache]
             /\ pending' = [pending EXCEPT ![h] = Tail(@)]
             /\ watchers' = [watchers EXCEPT ![h] = Append(@, Watcher(q.wait, NoCall))]
             /\ UNCHANGED calls
        ELSE /\ Apply(h, c, AfterRefill(c, calls[c], RefilledCache))
             /\ watchers' = [watchers EXCEPT ![h] = Append(@, Watcher(q.wait, NoCall))]
  /\ UNCHANGED <<dirExists, entries, events>>
  /\ UNCHANGED <<valueErrors, lvars, nvars>>

\* _get_item: client.get answered
GetItemDone(h) ==
  /\ Serving(h, "get")
  /\ LET q == Head(pending[h])
         c == q.call
     IN IF Exists(q.node)
        THEN /\ calls' = [calls EXCEPT ![c].st = "delete", ![c].cur = NoName,
                            ![c].data = OnSuccessTuple(ClientGet(q.node))]
             /\ pending' = [pending EXCEPT ![h] = Tail(@) \o
                   <<Req("delete", c, calls[c].name, q.wait)>>]
             /\ UNCHANGED cache
        ELSE Apply(h, c, OnNoNode(c, calls[c], cache[h]))
  /\ UNCHANGED <<dirExists, entries, watchers, events>>
  /\ UNCHANGED <<valueErrors, lvars, nvars>>

\* _get.on_success_remove: client.delete answered
DeleteDone(h) ==
  /\ Serving(h, "delete")
  /\ LET q == Head(pending[h])
         c == q.call
     IN IF Exists(q.node)
        THEN /\ entries' = [entries EXCEPT ![q.node].live = FALSE]
             /\ events' = FiredEvents
             /\ watchers' = NoWatchers
             /\ Apply(h, c, Finish(c, calls[c], cache[h], Ok(calls[c].data)))
        ELSE /\ Apply(h, c, OnDeleteNoNode(c, calls[c], cache[h]))
             /\ UNCHANGED <<entries, events, watchers>>
  /\ UNCHANGED dirExists
  /\ UNCHANGED <<valueErrors, lvars, nvars>>

\* ---- ZNode: values ----
\* _node_stat: None, or the stat the service gave
NoneStat == [none |-> TRUE, version |-> 0]
Stat(v) == [none |-> FALSE, version |-> v]

NoNodeResult == [op |-> "none", kind |-> "none", val |-> "", nodes |-> {}]
NodeResult(op, kind, val) == [op |-> op, kind |-> kind, val |-> val, nodes |-> {}]

\* the node is absent from the service
AbsentNode == [exists |-> FALSE, data |-> "", version |-> 0, aversion |-> 0,
               children |-> {}]

\* ---- specification: producers and consumers on the queue ----
IdleLock == [locked |-> FALSE, cand |-> NoName, st |-> "idle", pred |-> NoName,
             err |-> "none"]

Init ==
  /\ dirExists = TRUE
  /\ entries = <<>>
  /\ watchers = [h \in Handles |-> <<>>]
  /\ events = [h \in Handles |-> <<>>]
  /\ pending = [h \in Handles |-> <<>>]
  /\ cache = [h \in Handles |-> <<>>]
  /\ calls = [c \in Calls |-> IdleCall]
  /\ valueErrors = 0
  /\ lockNodes = <<>>
  /\ locks = [l \in LockHandles |-> IdleLock]
  /\ znode = AbsentNode
  /\ nodeStat = [z \in NodeHandles |-> NoneStat]
  /\ nreqs = [z \in NodeHandles |-> <<>>]
  /\ nresult = [z \in NodeHandles |-> NoNodeResult]
  /\ regs = <<>>

Next ==
  \/ \E h \in Handles, w \in BOOLEAN : StartGet(h, w)
  \/ Put
  \/ DeleteDir
  \/ \E h \in Handles : WatchFired(h)
  \/ \E h \in Handles : RefillDone(h)
  \/ \E h \in Handles : WatchRefillDone(h)
  \/ \E h \in Handles : GetItemDone(h)
  \/ \E h \in Handles : DeleteDone(h)

Spec == Init /\ [][Next]_vars

\* ---- specification: put on an empty queue, then get, repeatedly ----
NoCallInFlight == \A c \in Calls : calls[c].st \in {"idle", "done"}

\* test_put_item / test_put_get_nowait_item: queue.put(item), acknowledged
PutAlone(item) ==
  /\ Live = {}
  /\ NoCallInFlight
  /\ Len(entries) < MaxRoundTrips
  /\ Create(item)

\* test_put_get_nowait_item: queue.get_nowait() after the put
GetAfterPut(h) ==
  /\ Live # {}
  /\ NoCallInFlight
  /\ StartGetAs(1, h, FALSE)

NextRoundTrip ==
  \/ \E item \in Items : PutAlone(item)
  \/ \E h \in Handles : GetAfterPut(h)
  \/ \E h \in Handles : WatchFired(h)
  \/ \E h \in Handles : RefillDone(h)
  \/ \E h \in Handles : WatchRefillDone(h)
  \/ \E h \in Handles : GetItemDone(h)
  \/ \E h \in Handles : DeleteDone(h)

SpecRoundTrip == Init /\ [][NextRoundTrip]_vars

\* ---- specification: get_wait on an empty queue, producers, other gets ----
\* test_get_with_wait: queue.get_wait() while the directory has no entry
GetWaitOnEmpty(h) ==
  /\ dirExists
  /\ Live = {}
  /\ StartGet(h, TRUE)

NextBlocking ==
  \/ \E h \in Handles : GetWaitOnEmpty(h)
  \/ \E h \in Handles : StartGet(h, FALSE)
  \/ Put
  \/ \E h \in Handles : WatchFired(h)
  \/ \E h \in Handles : RefillDone(h)
  \/ \E h \in Handles : WatchRefillDone(h)
  \/ \E h \in Handles : GetItemDone(h)
  \/ \E h \in Handles : DeleteDone(h)

SpecBlocking == Init /\ [][NextBlocking]_vars

\* ---- specification: get_nowait on the empty queue, then a backlog ----
\* test_get_nowait_empty_queue: handle 1 called get_nowait on the empty
\* queue, the call failed with Empty and its refill left a watch
InitAfterEmpty ==
  /\ dirExists = TRUE
  /\ entries = <<>>
  /\ watchers = [h \in Handles |->
                   IF h = 1 THEN <<Watcher(FALSE, NoCall)>> ELSE <<>>]
  /\ events = [h \in Handles |-> <<>>]
  /\ pending = [h \in Handles |-> <<>>]
  /\ cache = [h \in Handles |-> <<>>]
  /\ calls = [c \in Calls |-> IdleCall]
  /\ valueErrors = 0
  /\ lockNodes = <<>>
  /\ locks = [l \in LockHandles |-> IdleLock]
  /\ znode = AbsentNode
  /\ nodeStat = [z \in NodeHandles |-> NoneStat]
  /\ nreqs = [z \in NodeHandles |-> <<>>]
  /\ nresult = [z \in NodeHandles |-> NoNodeResult]
  /\ regs = <<>>

\* test_multiconsumer_multiproducer: a producer puts the next item
PutBacklog ==
  /\ Len(entries) < MaxBacklog
  /\ Create(AllItems[NextSequence])

NextBacklog ==
  \/ PutBacklog
  \/ \E h \in Handles : StartGet(h, FALSE)
  \/ \E h \in Handles : WatchFired(h)
  \/ \E h \in Handles : RefillDone(h)
  \/ \E h \in Handles : WatchRefillDone(h)
  \/ \E h \in Handles : GetItemDone(h)
  \/ \E h \in Handles : DeleteDone(h)

SpecBacklog == InitAfterEmpty /\ [][NextBacklog]_vars

\* ---- properties of the queue ----
RECURSIVE BagOfSeq(_)
BagOfSeq(s) ==
  IF s = <<>> THEN EmptyBag ELSE SetToBag({Head(s)}) (+) BagOfSeq(Tail(s))

RECURSIVE ReturnedUpTo(_)
ReturnedUpTo(c) ==
  IF c = 0 THEN <<>>
  ELSE ReturnedUpTo(c - 1) \o
       (IF calls[c].res.kind = "ok" THEN <<calls[c].res.val>> ELSE <<>>)

ReturnedBag == BagOfSeq(ReturnedUpTo(MaxCalls))
PutBag == BagOfSeq([n \in 1..Len(entries) |-> entries[n].data])

Quiescent == \A h \in Handles : pending[h] = <<>> /\ events[h] = <<>>
AllResolved == \A c \in Calls : calls[c].st \in {"idle", "done"}
Resolves(c) == calls[c].st # "done" /\ calls'[c].st = "done"

\* C1: once every get has resolved and the directory has no entry left, the
\* values returned by the successful gets are exactly the items put.
C1_Conservation ==
  (AllResolved /\ dirExists /\ Live = {}) => ReturnedBag = PutBag

\* C2: a get deletes, and resolves with, the lowest sequence entry that
\* exists: entries are deleted in increasing sequence order.
C2_FifoBySequence ==
  [][/\ \A n \in Live : n \notin Live' => \A m \in Live : n <= m
     /\ \A c \in Calls : (Resolves(c) /\ calls'[c].res.kind = "ok") =>
          \E n \in Live : /\ n \notin Live'
                          /\ \A m \in Live : n <= m
                          /\ calls'[c].res.val = entries[n].data]_vars

C2_Witness ==
  /\ Len(entries) >= 2
  /\ ~entries[1].live
  /\ entries[2].live
  /\ \E c \in Calls : calls[c].res = Ok(entries[1].data)

\* C4: a get_wait on an empty queue is unresolved while nothing was put, and
\* when it is still suspended with nothing more in flight, no item that was
\* put is missing: the item went to this call unless another get returned it.
C4_BlockingGet ==
  \A c \in Calls :
    /\ (calls[c].wait /\ calls[c].st = "done") => Len(entries) > 0
    /\ (calls[c].wait /\ calls[c].st = "waiting" /\ Quiescent)
          => (Live = {} /\ ReturnedBag = PutBag)

\* C5: a get without wait whose refill finds the directory without children
\* fails with Empty in that step, and such a get is never suspended.
C5_EmptyQueue ==
  /\ [](\A c \in Calls : ~calls[c].wait => calls[c].st # "waiting")
  /\ [][\A c \in Calls :
          (/\ calls[c].st = "refill"
           /\ ~calls[c].wait
           /\ calls'[c] # calls[c]
           /\ dirExists /\ Live = {})
          => (calls'[c].st = "done" /\ calls'[c].res = Fail("Empty"))]_vars

C5_Witness ==
  \E c \in Calls : ~calls[c].wait /\ calls[c].res = Fail("Empty") /\ dirExists

\* C6: after put(item) on an empty queue, get() resolves with item and
\* leaves no child; put leaves one child holding item.
C6_RoundTrip ==
  /\ [](Cardinality(Live) <= 1)
  /\ [][Resolves(1) =>
          \E n \in Live : /\ Live = {n}
                          /\ calls'[1].res = Ok(entries[n].data)
                          /\ Live' = {}]_vars

\* C10: a get_wait suspended on child_available when the directory is gone
\* stays suspended.
C10_DestroyedQueue ==
  [][\A c \in Calls : (calls[c].st = "waiting" /\ ~dirExists)
        => calls'[c] = calls[c]]_vars

C10_Witness ==
  /\ ~dirExists
  /\ Quiescent
  /\ \E c \in Calls : calls[c].st = "waiting"

\* C11: a get that comes to its end while the directory does not exist
\* fails with the NoNode error of the missing queue, never with Empty; no
\* refill answered without the directory suspends its call, and with nothing
\* in flight no call is left unanswered.
C11_MissingDirectory ==
  /\ [][\A c \in Calls :
          (Resolves(c) /\ ~dirExists) => calls'[c].res = Fail("NoNode")]_vars
  /\ [][\A c \in Calls :
          (calls[c].st # "waiting" /\ calls'[c].st = "waiting") => dirExists]_vars
  /\ []((~dirExists /\ Quiescent) =>
          \A c \in Calls : calls[c].st \in {"idle", "done", "waiting"})

C11_Witness ==
  /\ ~dirExists
  /\ \E c, d \in Calls :
       /\ calls[c].wait /\ calls[c].res = Fail("NoNode")
       /\ ~calls[d].wait /\ calls[d].res = Fail("NoNode")

\* C12: put of an item that is not a str raises ValueError and changes
\* nothing else: no request, no child, the caches as they were; every child
\* holds a str item.
C12_InvalidItem ==
  /\ [](\A n \in 1..Len(entries) :
          \E i \in 1..Len(AllItems) : entries[n].data = AllItems[i])
  /\ [][valueErrors' # valueErrors =>
          /\ valueErrors' = valueErrors + 1
          /\ UNCHANGED <<dirExists, entries, watchers, events, pending, cache,
                         calls>>]_vars

C12_Witness ==
  /\ valueErrors > 0
  /\ Len(entries) > 0
  /\ \E h \in Handles : cache[h] # <<>>

InFlight(c) == calls[c].st \notin {"idle", "done"}

\* the step runs the completion of the request at the head of pending[h]
\* (a call has one request in flight, so the head is there only once)
Completes(h) ==
  /\ events[h] = <<>>
  /\ pending[h] # <<>>
  /\ pending'[h] = <<>> \/ Head(pending'[h]) # Head(pending[h])

\* C16: the data of every entry a get has deleted is the result of a call,
\* or is held by the call in flight that deleted it; it is never dropped.
C16_DeletedDelivered ==
  \A n \in 1..Len(entries) :
    ~entries[n].live =>
      \E c \in Calls :
        \/ calls[c].res = Ok(entries[n].data)
        \/ InFlight(c) /\ calls[c].data = entries[n].data

\* C17: no two gets return the same entry, and a get whose delete is
\* answered NoNode drops the data it read and goes on with a retry.
C17_NoDuplication ==
  /\ [](\A c, d \in Calls :
          (c # d /\ calls[c].res.kind = "ok" /\ calls[d].res.kind = "ok")
            => calls[c].res.val # calls[d].res.val)
  /\ [][\A h \in Handles :
          (Serving(h, "delete") /\ ~Exists(Head(pending[h]).node)
           /\ Completes(h))
            => LET c == Head(pending[h]).call
               IN /\ calls'[c].st \in {"refill", "read"}
                  /\ calls'[c].data = ""
                  /\ calls'[c].res = NoResult]_vars

C17_Witness ==
  \E c, d \in Calls :
    /\ calls[c].res.kind = "ok"
    /\ InFlight(d)
    /\ \E i \in 1..Len(calls[d].stack) : calls[d].stack[i].k = "K2"

\* C18: while the directory exists a call ends with an item, or with Empty
\* when it does not wait; a read or delete answered NoNode ends no call.
C18_SilentRaceSkip ==
  /\ [][\A c \in Calls :
          (Resolves(c) /\ dirExists) =>
            \/ calls'[c].res.kind = "ok"
            \/ ~calls[c].wait /\ calls'[c].res = Fail("Empty")]_vars
  /\ [][\A h \in Handles :
          (/\ pending[h] # <<>>
           /\ Head(pending[h]).op \in {"get", "delete"}
           /\ ~Exists(Head(pending[h]).node)
           /\ dirExists
           /\ Completes(h))
            => calls'[Head(pending[h]).call].res.kind # "NoNode"]_vars

C18_Witness ==
  /\ dirExists
  /\ \E c, d \in Calls :
       /\ calls[c].res.kind = "ok"
       /\ InFlight(d)
       /\ calls[d].stack # <<>>
       /\ Head(calls[d].stack).k = "K1"

\* C19: a read answered NoNode with names left in the cache is followed by
\* the read of the lowest name left in the cache.
C19_FallThroughOrder ==
  [][\A h \in Handles :
       (/\ Serving(h, "get")
        /\ ~Exists(Head(pending[h]).node)
        /\ cache[h] # <<>>
        /\ Completes(h))
         => \A i \in 1..Len(cache[h]) :
              calls'[Head(pending[h]).call].cur <= cache[h][i]]_vars

\* C20: a get_wait never fails with Empty (it ends with an item, or with
\* NoNode when the directory is gone); a suspended get_wait is resumed only
\* by the refill that follows a watch firing and lists a child; when that
\* refill lists no child the call stays suspended and a new watch is set
\* for it.
C20_WaitResolvesOnEntry ==
  /\ [](\A c \in Calls :
          (calls[c].wait /\ calls[c].st = "done")
            => calls[c].res.kind \in {"ok", "NoNode"})
  /\ [][\A c \in Calls :
          (calls[c].st = "waiting" /\ calls'[c] # calls[c]) =>
            LET h == calls[c].h
            IN /\ Serving(h, "watch_refill")
               /\ Head(pending[h]).call = c
               /\ dirExists
               /\ Live # {}]_vars
  /\ [][\A h \in Handles :
          (/\ Serving(h, "watch_refill")
           /\ Head(pending[h]).call # NoCall
           /\ dirExists /\ Live = {}
           /\ Completes(h))
            => LET c == Head(pending[h]).call
               IN /\ calls'[c] = calls[c]
                  /\ calls[c].st = "waiting"
                  /\ watchers'[h] = Append(watchers[h], Watcher(TRUE, c))]_vars

C20_Witness ==
  \E c, d \in Calls :
    /\ calls[c].st = "waiting"
    /\ calls[d].res.kind = "ok"
    /\ dirExists /\ Live = {}
    /\ Serving(calls[c].h, "watch_refill")
    /\ Head(pending[calls[c].h]).call = c

\* the notifications on their way to call c: the watcher its child_available
\* is chained to, that watcher's fired event, the refill the watcher started
Notifiers(c) ==
  UNION {{<<h, "watcher", i>> : i \in {k \in DOMAIN watchers[h] :
              watchers[h][k].wait /\ watchers[h][k].target = c}}
         \cup {<<h, "event", i>> : i \in {k \in DOMAIN events[h] :
              events[h][k].wait /\ events[h][k].target = c}}
         \cup {<<h, "refill", i>> : i \in {k \in DOMAIN pending[h] :
              pending[h][k].op = "watch_refill" /\ pending[h][k].call = c}}
         : h \in Handles}

\* the completion of a refill started by a watcher for call c on handle h
Notifies(h, c) ==
  /\ Completes(h)
  /\ Head(pending[h]).op = "watch_refill"
  /\ Head(pending[h]).call = c

\* C22: a get_wait call suspended on child_available has at most one
\* notification on its way, only a suspended call has one, the call leaves
\* the suspension only by the refill its watcher started and then has no
\* notification left, and a finished call is never changed again, whatever
\* watches fire later on the handle.
C22_SingleResolution ==
  /\ [](\A c \in Calls :
          /\ Cardinality(Notifiers(c)) <= 1
          /\ Notifiers(c) # {} =>
               /\ calls[c].st = "waiting"
               /\ \A x \in Notifiers(c) : x[1] = calls[c].h)
  /\ [][\A c \in Calls :
          /\ calls[c].st = "done" => calls'[c] = calls[c]
          /\ (calls[c].st = "waiting" /\ calls'[c].st # "waiting") =>
               /\ Notifies(calls[c].h, c)
               /\ Notifiers(c)' = {}]_vars

\* one get_wait has finished with an item, a second one on the same handle is
\* still suspended with its notification on the way, and the refill started
\* by a watcher no call is chained to is about to be answered with children
C22_Witness ==
  \E c, d \in Calls :
    /\ c # d
    /\ calls[c].wait /\ calls[c].st = "done" /\ calls[c].res.kind = "ok"
    /\ calls[d].wait /\ calls[d].st = "waiting" /\ calls[d].h = calls[c].h
    /\ Notifiers(d) # {}
    /\ Live # {}
    /\ Serving(calls[c].h, "watch_refill")
    /\ Head(pending[calls[c].h]).wait
    /\ Head(pending[calls[c].h]).call = NoCall

\* ---- Lock ----
LiveCandidates == {n \in 1..Len(lockNodes) : lockNodes[n].live}

\* rank not looked at
IsLowest_any(n) == TRUE

\* rank compared one off
IsLowest_second(n) == \A m \in LiveCandidates : n <= m + 1

\* acquire: the candidate is the lowest ranked live child
IsLowest(n) == \A m \in LiveCandidates : n <= m

\* acquire: the next lower ranked sibling
Predecessor(n) ==
  CHOOSE m \in LiveCandidates :
    m < n /\ \A k \in LiveCandidates : k < n => k <= m

\* acquire() without the check of locked
Acquire_unchecked(l) ==
  /\ locks[l].st \in {"idle", "held"}
  /\ Len(lockNodes) + Cardinality({k \in LockHandles :
         locks[k].st = "creating"}) < MaxCandidates
  /\ locks' = [locks EXCEPT ![l].st = "creating", ![l].err = "none"]
  /\ UNCHANGED lockNodes
  /\ UNCHANGED <<qvars, nvars>>

\* acquire(): AlreadyHeld when locked, else the candidate node is requested
Acquire(l) ==
  /\ IF locks[l].locked
     THEN locks' = [locks EXCEPT ![l].err = "AlreadyHeld"]
     ELSE /\ locks[l].st = "idle"
          /\ Len(lockNodes) + Cardinality({k \in LockHandles :
                 locks[k].st = "creating"}) < MaxCandidates
          /\ locks' = [locks EXCEPT ![l].st = "creating", ![l].err = "none"]
  /\ UNCHANGED lockNodes
  /\ UNCHANGED <<qvars, nvars>>

\* the sequential ephemeral candidate node is created; the children are asked
CandidateCreated(l) ==
  /\ locks[l].st = "creating"
  /\ lockNodes' = Append(lockNodes, [owner |-> l, live |-> TRUE])
  /\ locks' = [locks EXCEPT ![l].st = "listing", ![l].cand = Len(lockNodes) + 1]
  /\ UNCHANGED <<qvars, nvars>>

\* the children are listed: lowest rank holds, else check the predecessor
ChildrenListed(l) ==
  /\ locks[l].st = "listing"
  /\ IF IsLowest(locks[l].cand)
     THEN locks' = [locks EXCEPT ![l].st = "held", ![l].locked = TRUE,
                                 ![l].pred = NoName]
     ELSE locks' = [locks EXCEPT ![l].st = "checking",
                                 ![l].pred = Predecessor(locks[l].cand)]
  /\ UNCHANGED lockNodes
  /\ UNCHANGED <<qvars, nvars>>

\* the existence watch on the predecessor is answered
PredecessorChecked(l) ==
  /\ locks[l].st = "checking"
  /\ IF locks[l].pred \in LiveCandidates
     THEN locks' = [locks EXCEPT ![l].st = "watching"]
     ELSE locks' = [locks EXCEPT ![l].st = "listing", ![l].pred = NoName]
  /\ UNCHANGED lockNodes
  /\ UNCHANGED <<qvars, nvars>>

\* the lock taken when the watch fires, without listing the children
PredecessorGone_taken(l) ==
  /\ locks[l].st = "watching"
  /\ locks[l].pred \notin LiveCandidates
  /\ locks' = [locks EXCEPT ![l].st = "held", ![l].locked = TRUE,
                            ![l].pred = NoName]
  /\ UNCHANGED lockNodes
  /\ UNCHANGED <<qvars, nvars>>

\* the watch on the predecessor fires: list the children again
PredecessorGone(l) ==
  /\ locks[l].st = "watching"
  /\ locks[l].pred \notin LiveCandidates
  /\ locks' = [locks EXCEPT ![l].st = "listing", ![l].pred = NoName]
  /\ UNCHANGED lockNodes
  /\ UNCHANGED <<qvars, nvars>>

\* release(): NotHeld when not locked, else the delete is requested
Release(l) ==
  /\ IF ~locks[l].locked
     THEN locks' = [locks EXCEPT ![l].err = "NotHeld"]
     ELSE /\ locks[l].st = "held"
          /\ locks' = [locks EXCEPT ![l].st = "releasing", ![l].err = "none"]
  /\ UNCHANGED lockNodes
  /\ UNCHANGED <<qvars, nvars>>

\* locked left set after the delete
Released_stale(l) ==
  /\ locks[l].st = "releasing"
  /\ lockNodes' = [lockNodes EXCEPT ![locks[l].cand].live = FALSE]
  /\ locks' = [locks EXCEPT ![l].st = "idle", ![l].cand = NoName]
  /\ UNCHANGED <<qvars, nvars>>

\* the candidate node is deleted and locked is cleared
Released(l) ==
  /\ locks[l].st = "releasing"
  /\ lockNodes' = [lockNodes EXCEPT ![locks[l].cand].live = FALSE]
  /\ locks' = [locks EXCEPT ![l].st = "idle", ![l].locked = FALSE,
                            ![l].cand = NoName]
  /\ UNCHANGED <<qvars, nvars>>

\* the session of a waiting candidate expires: its ephemeral node is removed
SessionExpired(l) ==
  /\ locks[l].st \in {"listing", "checking", "watching"}
  /\ lockNodes' = [lockNodes EXCEPT ![locks[l].cand].live = FALSE]
  /\ locks' = [locks EXCEPT ![l].st = "expired", ![l].pred = NoName]
  /\ UNCHANGED <<qvars, nvars>>

NextLock ==
  \/ \E l \in LockHandles : Acquire(l)
  \/ \E l \in LockHandles : CandidateCreated(l)
  \/ \E l \in LockHandles : ChildrenListed(l)
  \/ \E l \in LockHandles : PredecessorChecked(l)
  \/ \E l \in LockHandles : PredecessorGone(l)
  \/ \E l \in LockHandles : Release(l)
  \/ \E l \in LockHandles : Released(l)
  \/ \E l \in LockHandles : SessionExpired(l)

SpecLock == Init /\ [][NextLock]_vars

\* ---- properties of the lock ----
Holders == {l \in LockHandles : locks[l].locked}
Acquires(l) == ~locks[l].locked /\ locks'[l].locked
OwnedLive(l) == {n \in LiveCandidates : lockNodes[n].owner = l}

\* C3: at most one handle has locked set, and a handle gets the lock only
\* when no other handle has it (after the holder's release completed).
C3_MutualExclusion ==
  /\ [](Cardinality(Holders) <= 1)
  /\ [][\A l \in LockHandles : Acquires(l) =>
          \A k \in LockHandles \ {l} :
             ~locks[k].locked /\ locks[k].st \notin {"held", "releasing"}]_vars

C3_Witness ==
  \E l, k \in LockHandles :
    /\ l # k
    /\ locks[l].locked
    /\ locks[k].st = "idle"
    /\ \E n \in 1..Len(lockNodes) :
         n < locks[l].cand /\ lockNodes[n].owner = k /\ ~lockNodes[n].live

\* C7: the lock goes to the candidates in increasing sequence order: the
\* handle that gets the lock, and the handle that has it, owns the lowest
\* live candidate.
C7_LockFifo ==
  /\ [](\A l \in LockHandles : locks[l].locked =>
          (locks[l].cand \in LiveCandidates /\
           \A m \in LiveCandidates : locks[l].cand <= m))
  /\ [][\A l \in LockHandles : Acquires(l) =>
          \A m \in LiveCandidates : locks'[l].cand <= m]_vars

C7_Witness ==
  \E l, k \in LockHandles :
    /\ locks[l].locked
    /\ locks[l].cand >= 2
    /\ locks[k].st = "watching"
    /\ locks[k].cand > locks[l].cand

\* C8: acquire() on a locked handle fails with AlreadyHeld, release() on a
\* handle that is not locked fails with NotHeld, and neither changes the
\* flag, the candidate or the children.
C8_LockMisuse ==
  [][\A l \in LockHandles :
       /\ (locks'[l].err = "AlreadyHeld" /\ locks[l].err # "AlreadyHeld") =>
            /\ locks[l].locked
            /\ locks' = [locks EXCEPT ![l].err = "AlreadyHeld"]
            /\ lockNodes' = lockNodes
       /\ (locks'[l].err = "NotHeld" /\ locks[l].err # "NotHeld") =>
            /\ ~locks[l].locked
            /\ locks' = [locks EXCEPT ![l].err = "NotHeld"]
            /\ lockNodes' = lockNodes
       /\ locks[l].locked =>
            /\ locks'[l].st # "creating"
            /\ OwnedLive(l) = {locks[l].cand}
       /\ ~locks[l].locked => locks'[l].st # "releasing"]_vars

C8_Witness ==
  \E l, k \in LockHandles :
    /\ locks[l].locked /\ locks[l].err = "AlreadyHeld"
    /\ ~locks[k].locked /\ locks[k].err = "NotHeld"

\* C9: after release the handle is not locked and has no candidate node; an
\* acquire then makes a fresh candidate and, lowest ranked, gets the lock.
C9_LockReuse ==
  /\ [](\A l \in LockHandles :
          /\ locks[l].st = "idle" =>
               (~locks[l].locked /\ locks[l].cand = NoName /\ OwnedLive(l) = {})
          /\ locks[l].st = "held" =>
               (locks[l].locked /\ OwnedLive(l) = {locks[l].cand}))
  /\ [][\A l \in LockHandles :
          /\ (locks[l].st = "releasing" /\ locks'[l].st # "releasing") =>
               (locks'[l].st = "idle" /\ ~locks'[l].locked
                /\ locks[l].cand \notin {n \in 1..Len(lockNodes') :
                                            lockNodes'[n].live})
          /\ (locks[l].st = "creating" /\ locks'[l].st # "creating") =>
               (locks'[l].cand = Len(lockNodes) + 1
                /\ lockNodes'[locks'[l].cand] = [owner |-> l, live |-> TRUE])
          /\ (locks[l].st = "listing" /\ locks'[l].st \notin {"listing", "expired"}
              /\ LiveCandidates = {locks[l].cand}) =>
               (locks'[l].st = "held" /\ locks'[l].locked)]_vars

C9_Witness ==
  \E l \in LockHandles :
    /\ locks[l].locked
    /\ \E n \in 1..Len(lockNodes) :
         n < locks[l].cand /\ lockNodes[n].owner = l /\ ~lockNodes[n].live

\* the live candidates below candidate n
LowerLive(n) == {m \in LiveCandidates : m < n}

\* C21: when the watch on its predecessor fires, a waiting candidate lists
\* the children again and is not locked by that step; a listing makes it the
\* holder only if it is the lowest live candidate, and otherwise leaves it
\* not locked and watching the highest live candidate below it; so a handle
\* gets locked only while its candidate is the lowest live one.
C21_LockReevaluation ==
  /\ [][\A l \in LockHandles :
          /\ (locks[l].st = "watching" /\ locks'[l].st # "watching") =>
               /\ ~locks'[l].locked
               /\ locks'[l].st \in {"listing", "expired"}
               /\ locks'[l].st = "listing" =>
                    locks[l].pred \notin LiveCandidates
          /\ (locks[l].st = "listing" /\ locks'[l].st = "held") =>
               (locks'[l].locked /\ LowerLive(locks[l].cand) = {})
          /\ (locks[l].st = "listing" /\ LowerLive(locks[l].cand) # {}
              /\ locks'[l].st \notin {"listing", "expired"}) =>
               /\ ~locks'[l].locked
               /\ locks'[l].st = "checking"
               /\ locks'[l].pred \in LowerLive(locks[l].cand)
               /\ \A m \in LowerLive(locks[l].cand) : m <= locks'[l].pred
          /\ Acquires(l) =>
               (locks[l].st = "listing" /\ LowerLive(locks[l].cand) = {})]_vars
  /\ [](\A l \in LockHandles :
          locks[l].st \in {"checking", "watching"} =>
            (~locks[l].locked /\ locks[l].pred < locks[l].cand))

C21_Witness ==
  \E l, k, w \in LockHandles :
    /\ locks[l].locked
    /\ locks[k].st = "expired"
    /\ locks[w].st = "watching"
    /\ locks[w].pred = locks[l].cand
    /\ \E n \in 1..Len(lockNodes) :
         /\ lockNodes[n].owner = k
         /\ ~lockNodes[n].live
         /\ locks[l].cand < n
         /\ n < locks[w].cand

\* ---- ZNode ----
NodeData == {"x", "y"}
ChildNames == {[prefix |-> "q", seq |-> 1], [prefix |-> "r", seq |-> 1]}
Prefixes == {"", "q"}
NoWatch == 0

\* _get_version lines 35-38
GetVersion(stat) == IF stat.none THEN -1 ELSE stat.version

\* the stat the service has for the node: None when the node is absent
ServiceStat == IF znode.exists THEN Stat(znode.version) ELSE NoneStat

NodeReq(op, data, version, watch) ==
  [op |-> op, data |-> data, version |-> version, watch |-> watch]

\* one deferred kept by the handle and handed out by every call
Register_shared(z, kind) ==
  IF \E i \in 1..Len(regs) : regs[i].h = z /\ regs[i].kind = kind
  THEN [id |-> CHOOSE i \in 1..Len(regs) : regs[i].h = z /\ regs[i].kind = kind,
        regs |-> regs]
  ELSE [id |-> Len(regs) + 1,
        regs |-> Append(regs, [h |-> z, kind |-> kind, armed |-> FALSE,
                               fired |-> 0])]

\* node_changed = Deferred() and its watcher function, lines 75-78, 106-109,
\* 175-179: a new deferred for every and_watch call
Register(z, kind) ==
  [id |-> Len(regs) + 1,
   regs |-> Append(regs, [h |-> z, kind |-> kind, armed |-> FALSE,
                          fired |-> 0])]

\* the service sets the watch of a request when it answers it
Arm(rs, w) == IF w = NoWatch THEN rs ELSE [rs EXCEPT ![w].armed = TRUE]

\* the watches of exists and get fire: the watcher function calls
\* node_changed.callback
FireNode(rs) ==
  [i \in 1..Len(rs) |->
     IF rs[i].armed /\ rs[i].kind \in {"exists", "data"}
     THEN [rs[i] EXCEPT !.armed = FALSE, !.fired = @ + 1]
     ELSE rs[i]]

\* the watches of get_children fire
FireChildren(rs) ==
  [i \in 1..Len(rs) |->
     IF rs[i].armed /\ rs[i].kind = "children"
     THEN [rs[i] EXCEPT !.armed = FALSE, !.fired = @ + 1]
     ELSE rs[i]]

\* name.startswith(prefix)
StartsWith(name, prefix) == prefix = "" \/ name.prefix = prefix

\* the request goes to the service; the caller holds the new deferred in
\* place of the last result
Issue(z, q) ==
  /\ Len(nreqs[z]) < MaxInFlight
  /\ nreqs' = [nreqs EXCEPT ![z] = Append(@, q)]
  /\ nresult' = [nresult EXCEPT ![z] = NoNodeResult]
  /\ UNCHANGED <<znode, nodeStat>>
  /\ UNCHANGED <<qvars, lvars>>

NodeServing(z, op) == nreqs[z] # <<>> /\ Head(nreqs[z]).op = op

SetsInFlight(op) ==
  Cardinality({p \in NodeHandles \X (1..MaxInFlight) :
                 p[2] <= Len(nreqs[p[1]]) /\ nreqs[p[1]][p[2]].op = op})

\* ZNode.exists
exists(z) ==
  /\ Issue(z, NodeReq("exists", "", -1, NoWatch))
  /\ UNCHANGED regs

\* ZNode.exists_and_watch
exists_and_watch(z) ==
  /\ Len(regs) < MaxWatches
  /\ LET r == Register(z, "exists")
     IN /\ Issue(z, NodeReq("exists", "", -1, r.id))
        /\ regs' = r.regs

\* ZNode.get_data
get_data(z) ==
  /\ Issue(z, NodeReq("get", "", -1, NoWatch))
  /\ UNCHANGED regs

\* ZNode.get_data_and_watch
get_data_and_watch(z) ==
  /\ Len(regs) < MaxWatches
  /\ LET r == Register(z, "data")
     IN /\ Issue(z, NodeReq("get", "", -1, r.id))
        /\ regs' = r.regs

\* ZNode.set_data: the version is read when the call is made
set_data(z, data) ==
  /\ znode.version + SetsInFlight("set") < MaxVersion
  /\ Issue(z, NodeReq("set", data, GetVersion(nodeStat[z]), NoWatch))
  /\ UNCHANGED regs

\* ZNode.get_acl
get_acl(z) ==
  /\ Issue(z, NodeReq("get_acl", "", -1, NoWatch))
  /\ UNCHANGED regs

\* ZNode.set_acl: the version is read when the call is made
set_acl(z) ==
  /\ znode.aversion + SetsInFlight("set_acl") < MaxVersion
  /\ Issue(z, NodeReq("set_acl", "", GetVersion(nodeStat[z]), NoWatch))
  /\ UNCHANGED regs

\* ZNode.get_children(prefix)
get_children(z, prefix) ==
  /\ Issue(z, NodeReq("get_children", prefix, -1, NoWatch))
  /\ UNCHANGED regs

\* ZNode.get_children_and_watch(prefix)
get_children_and_watch(z, prefix) ==
  /\ Len(regs) < MaxWatches
  /\ LET r == Register(z, "children")
     IN /\ Issue(z, NodeReq("get_children", prefix, -1, r.id))
        /\ regs' = r.regs

\* _on_exists_success lines 56-60
on_exists_success(cached, node_stat) ==
  IF node_stat.none
  THEN [stat |-> cached, value |-> "False"]
  ELSE [stat |-> node_stat, value |-> "True"]

\* _on_error_bad_version without the reset
on_error_bad_version_kept(cached) == cached

\* _on_error_bad_version lines 40-43
on_error_bad_version(cached) == NoneStat

\* _on_get_node_error lines 84-87
on_get_node_error(cached) == NoneStat

\* _on_get_children_filter_results lines 152-158
on_get_children_filter_results(children, prefix) ==
  {name \in children : StartsWith(name, prefix)}

Answer(z, stat, res) ==
  /\ nreqs' = [nreqs EXCEPT ![z] = Tail(@)]
  /\ nodeStat' = [nodeStat EXCEPT ![z] = stat]
  /\ nresult' = [nresult EXCEPT ![z] = res]

\* client.exists answered
ExistsDone(z) ==
  /\ NodeServing(z, "exists")
  /\ LET q == Head(nreqs[z])
         r == on_exists_success(nodeStat[z], ServiceStat)
     IN /\ Answer(z, r.stat, NodeResult("exists", "ok", r.value))
        /\ regs' = Arm(regs, q.watch)
  /\ UNCHANGED znode
  /\ UNCHANGED <<qvars, lvars>>

\* client.get answered: _on_get_node_success / _on_get_node_error; the watch
\* is set only when the node is there
GetDone(z) ==
  /\ NodeServing(z, "get")
  /\ LET q == Head(nreqs[z])
     IN IF znode.exists
        THEN /\ Answer(z, ServiceStat, NodeResult("get", "ok", znode.data))
             /\ regs' = Arm(regs, q.watch)
        ELSE /\ Answer(z, on_get_node_error(nodeStat[z]),
                       NodeResult("get", "NoNode", ""))
             /\ UNCHANGED regs
  /\ UNCHANGED znode
  /\ UNCHANGED <<qvars, lvars>>

\* client.set answered: NoNode passes _on_error_bad_version (trap raises
\* it again), BadVersion resets the stat, success runs set_data.on_success
SetDone(z) ==
  /\ NodeServing(z, "set")
  /\ LET q == Head(nreqs[z])
     IN IF ~znode.exists
        THEN /\ Answer(z, nodeStat[z], NodeResult("set", "NoNode", ""))
             /\ UNCHANGED <<znode, regs>>
        ELSE IF q.version \notin {-1, znode.version}
        THEN /\ Answer(z, on_error_bad_version(nodeStat[z]),
                       NodeResult("set", "BadVersion", ""))
             /\ UNCHANGED <<znode, regs>>
        ELSE /\ Answer(z, NoneStat, NodeResult("set", "ok", "self"))
             /\ znode' = [znode EXCEPT !.data = q.data, !.version = @ + 1]
             /\ regs' = FireNode(regs)
  /\ UNCHANGED <<qvars, lvars>>

\* get_acl.on_success lines 135-138: the stat given with the acl is kept
\* when it is not None
on_get_acl_success(cached, node_stat) ==
  IF node_stat.none THEN cached ELSE node_stat

\* client.get_acl answered: the acl and the stat of the node; NoNode goes to
\* the caller, get_acl has no errback
GetAclDone(z) ==
  /\ NodeServing(z, "get_acl")
  /\ IF znode.exists
     THEN Answer(z, on_get_acl_success(nodeStat[z], ServiceStat),
                 NodeResult("get_acl", "ok", ""))
     ELSE Answer(z, nodeStat[z], NodeResult("get_acl", "NoNode", ""))
  /\ UNCHANGED <<znode, regs>>
  /\ UNCHANGED <<qvars, lvars>>

\* client.set_acl answered: the version given is compared to the version of
\* the acl
SetAclDone(z) ==
  /\ NodeServing(z, "set_acl")
  /\ LET q == Head(nreqs[z])
     IN IF ~znode.exists
        THEN /\ Answer(z, nodeStat[z], NodeResult("set_acl", "NoNode", ""))
             /\ UNCHANGED znode
        ELSE IF q.version \notin {-1, znode.aversion}
        THEN /\ Answer(z, on_error_bad_version(nodeStat[z]),
                       NodeResult("set_acl", "BadVersion", ""))
             /\ UNCHANGED znode
        ELSE /\ Answer(z, nodeStat[z], NodeResult("set_acl", "ok", ""))
             /\ znode' = [znode EXCEPT !.aversion = @ + 1]
  /\ UNCHANGED regs
  /\ UNCHANGED <<qvars, lvars>>

\* client.get_children answered
GetChildrenDone(z) ==
  /\ NodeServing(z, "get_children")
  /\ LET q == Head(nreqs[z])
     IN IF znode.exists
        THEN /\ Answer(z, nodeStat[z],
                  [op |-> "get_children", kind |-> "ok", val |-> "",
                   nodes |-> on_get_children_filter_results(znode.children,
                                                            q.data)])
             /\ regs' = Arm(regs, q.watch)
        ELSE /\ Answer(z, nodeStat[z], NodeResult("get_children", "NoNode", ""))
             /\ UNCHANGED regs
  /\ UNCHANGED znode
  /\ UNCHANGED <<qvars, lvars>>

\* ZNode.create by some handle, acknowledged
NodeCreate(data) ==
  /\ ~znode.exists
  /\ znode' = [AbsentNode EXCEPT !.exists = TRUE, !.data = data]
  /\ regs' = FireNode(regs)
  /\ UNCHANGED <<nodeStat, nreqs, nresult>>
  /\ UNCHANGED <<qvars, lvars>>

\* a peer deletes the node
PeerDelete ==
  /\ znode.exists
  /\ znode.children = {}
  /\ znode' = AbsentNode
  /\ regs' = FireChildren(FireNode(regs))
  /\ UNCHANGED <<nodeStat, nreqs, nresult>>
  /\ UNCHANGED <<qvars, lvars>>

\* a peer creates or deletes a child of the node
PeerChild(name) ==
  /\ znode.exists
  /\ IF name \in znode.children
     THEN znode' = [znode EXCEPT !.children = @ \ {name}]
     ELSE /\ Cardinality(znode.children) < MaxChildren
          /\ znode' = [znode EXCEPT !.children = @ \cup {name}]
  /\ regs' = FireChildren(regs)
  /\ UNCHANGED <<nodeStat, nreqs, nresult>>
  /\ UNCHANGED <<qvars, lvars>>

\* ---- specification: the handles of one node, reading and writing ----
NextNode ==
  \/ \E z \in NodeHandles : exists(z)
  \/ \E z \in NodeHandles : exists_and_watch(z)
  \/ \E z \in NodeHandles : get_data(z)
  \/ \E z \in NodeHandles, d \in NodeData : set_data(z, d)
  \/ \E z \in NodeHandles : get_acl(z)
  \/ \E z \in NodeHandles : set_acl(z)
  \/ \E z \in NodeHandles : ExistsDone(z)
  \/ \E z \in NodeHandles : GetDone(z)
  \/ \E z \in NodeHandles : SetDone(z)
  \/ \E z \in NodeHandles : GetAclDone(z)
  \/ \E z \in NodeHandles : SetAclDone(z)
  \/ \E d \in NodeData : NodeCreate(d)
  \/ PeerDelete

SpecNode == Init /\ [][NextNode]_vars

\* ---- specification: the handles of one node, watching it ----
NextWatch ==
  \/ \E z \in NodeHandles : exists_and_watch(z)
  \/ \E z \in NodeHandles : get_data_and_watch(z)
  \/ \E z \in NodeHandles, p \in Prefixes : get_children(z, p)
  \/ \E z \in NodeHandles, p \in Prefixes : get_children_and_watch(z, p)
  \/ \E z \in NodeHandles, d \in NodeData : set_data(z, d)
  \/ \E z \in NodeHandles : ExistsDone(z)
  \/ \E z \in NodeHandles : GetDone(z)
  \/ \E z \in NodeHandles : GetChildrenDone(z)
  \/ \E z \in NodeHandles : SetDone(z)
  \/ \E d \in NodeData : NodeCreate(d)
  \/ PeerDelete
  \/ \E n \in ChildNames : PeerChild(n)

SpecWatch == Init /\ [][NextWatch]_vars

\* ---- properties of the node handle ----
Answered(z) == nreqs[z] # <<>> /\ Len(nreqs'[z]) < Len(nreqs[z])

\* C13: when exists() or exists_and_watch() is answered, the stat the handle
\* keeps is the stat just given if the node is there, and None if it is not.
C13_ExistsBookkeeping ==
  [][\A z \in NodeHandles :
       (Answered(z) /\ Head(nreqs[z]).op = "exists")
         => nodeStat'[z] = ServiceStat]_vars

VersionReset(z, kind) ==
  /\ GetVersion(nodeStat'[z]) = -1
  /\ nresult'[z].kind = kind
  /\ znode' = znode
  /\ nreqs'[z] = Tail(nreqs[z])

\* C14: set_data and set_acl answered with BadVersion, and get_data answered
\* with NoNode, leave the handle without a stat (version -1), give the
\* failure to the caller, leave the node as it was and send no new request.
C14_VersionReset ==
  [][\A z \in NodeHandles :
       Answered(z) =>
         LET q == Head(nreqs[z])
         IN /\ (q.op = "set" /\ znode.exists
                /\ q.version \notin {-1, znode.version})
                  => VersionReset(z, "BadVersion")
            /\ (q.op = "set_acl" /\ znode.exists
                /\ q.version \notin {-1, znode.aversion})
                  => VersionReset(z, "BadVersion")
            /\ (q.op = "get" /\ ~znode.exists)
                  => VersionReset(z, "NoNode")
            /\ nresult'[z].kind \in {"BadVersion", "NoNode"}
                  => (znode' = znode /\ nreqs'[z] = Tail(nreqs[z]))]_vars

C14_Witness ==
  \E z, y \in NodeHandles :
    /\ nresult[z].op = "set" /\ nresult[z].kind = "BadVersion"
    /\ nresult[y].op = "set_acl" /\ nresult[y].kind = "BadVersion"
    /\ nodeStat[z].none /\ nodeStat[y].none

NodeChanged ==
  \/ znode'.exists # znode.exists
  \/ znode'.data # znode.data
  \/ znode'.version # znode.version

ChildrenChanged ==
  \/ znode'.children # znode.children
  \/ znode'.exists # znode.exists

\* C15: the deferred of an and_watch call fires at most once, at the first
\* change of the node (of its children for get_children_and_watch) after the
\* watch was set; once fired it stays as it is whatever changes later.
C15_OneShotWatch ==
  /\ [](\A i \in 1..Len(regs) : regs[i].fired <= 1)
  /\ [][\A i \in 1..Len(regs) :
          /\ (regs[i].armed /\ regs[i].kind \in {"exists", "data"}
              /\ NodeChanged)
               => (regs'[i].fired = 1 /\ ~regs'[i].armed)
          /\ (regs[i].armed /\ regs[i].kind = "children" /\ ChildrenChanged)
               => (regs'[i].fired = 1 /\ ~regs'[i].armed)
          /\ regs[i].fired = 1 => regs'[i] = regs[i]
          /\ regs'[i].fired # regs[i].fired => regs[i].armed]_vars

C15_Witness ==
  \E i, j \in 1..Len(regs) :
    /\ i < j
    /\ regs[i].h = regs[j].h
    /\ regs[i].kind = regs[j].kind
    /\ regs[i].fired = 1
    /\ regs[j].fired = 1

====
